---- MODULE Spec2Model ----
(***************************************************************************)
(* Connection-lifecycle manager of p2p-gyro-game (class WebRTCManager,     *)
(* "Redesigned for reliability" revision, src/unnamed/part_015, the one    *)
(* the application in src/unnamed/part_014 drives).                        *)
(*                                                                         *)
(* The manager runs on one JavaScript event loop: every action below is    *)
(* one macrotask (an API call, a transport event handler or a timer        *)
(* callback) together with the promise continuations it triggers.          *)
(***************************************************************************)
EXTENDS Integers, Sequences, FiniteSets, TLC

\* ---- bounds of the model ------------------------------------------------
MaxInits == 2
MaxOps == 2
MaxChannels == 2
MaxTimers == 2
MaxRetries == 2
MaxPings == 2
MaxIdLen == 2
MaxDeviceIds == 2
MaxTime == 5
MaxAttempts == 5
MaxCallbacks == 2
MaxClock == 2

\* ---- program constants --------------------------------------------------
MaxReconnectAttempts == 5
ReconnectBaseMs == 1000
ReconnectCapMs == 16000
RetryBaseMs == 1000
RetryCapMs == 4000
MaxPeerIdLen == 20
MaxRoomDevices == 3

VARIABLES
  peer,               \* this.peer: 0 (null) or the index of a Peer object
  sessions,           \* the Peer objects created so far
  peerId,             \* this.peerId: "null" or "id"
  isReady,            \* this.isReady
  connectionStatus,   \* this.connectionStatus
  connections,        \* this.connections: address -> channel index, 0 = absent
  reconnectAttempts,  \* this.reconnectAttempts: address -> count, 0 = absent
  reconnectTimers,    \* this.reconnectTimers: address -> timer index, 0 = absent
  timers,             \* the setTimeout handles made by attemptReconnection
  pendingConnections, \* this.pendingConnections: address -> operation, 0 = absent
  ops,                \* the attemptConnection invocations (one per promise)
  chans,              \* the DataConnection objects with their handler closures
  qualityIntervals,   \* this.qualityIntervals: address -> channel whose interval is stored
  act,                \* the handler that ran last and what its connectToPeer did
  connectionQuality,  \* this.connectionQuality: address -> latest sample, NoQuality = absent
  unanswered,         \* address -> quality pings sent since the last sample was recorded
  lastData,           \* the message handleDataReceived got last and whether it was forwarded
  lastSend,           \* what the last sendData call attempted and returned
  identity,           \* human identifiers with the peer ids derived from them
  activeRooms,        \* RoomManager.activeRooms: room code -> room, NoRoom = absent
  localStorage,       \* the 'activeRooms' item of localStorage
  roomCall,           \* the RoomManager method called last, its arguments and outcome
  throttled,          \* a function made by throttle(func, limit), the clock and its last call
  clock,              \* Date.now() on this machine, in ms
  pings,              \* the quality pings sent: channel, pingId and timestamp
  displayKeyphrase,   \* this.displayKeyphrase: "null" or "label"
  dataCallbacks,      \* this.dataCallbacks: the subscribers in registration order
  connectionHandshakes \* this.connectionHandshakes: address -> handshake state

vars == <<peer, sessions, peerId, isReady, connectionStatus, connections,
          reconnectAttempts, reconnectTimers, timers, pendingConnections,
          ops, chans, qualityIntervals, act,
          connectionQuality, unanswered, lastData, lastSend, identity,
          activeRooms, localStorage, roomCall, throttled,
          clock, pings, displayKeyphrase, dataCallbacks, connectionHandshakes>>

\* the state of the RoomManager
roomVars == <<activeRooms, localStorage, roomCall>>

\* the state of the data plane and of identifier derivation
\* the state of a throttled function
throttleVars == <<throttled>>

\* the clock, the pings in flight, the label and the subscribers
planeVars == <<clock, pings, displayKeyphrase, dataCallbacks, connectionHandshakes>>

dataVars ==
  <<connectionQuality, unanswered, lastData, lastSend, identity, roomVars, throttleVars,
    planeVars>>

\* ---- identifiers ----------------------------------------------------------
\* A keyphrase is a sequence of characters.
Lower(ch) ==
  CASE ch = "A" -> "a"
    [] ch = "B" -> "b"
    [] OTHER -> ch

ToLowerCase(s) == [i \in 1..Len(s) |-> Lower(s[i])]

IsSpace(ch) == ch = " "

RECURSIVE TrimLeft(_)
TrimLeft(s) == IF s # <<>> /\ IsSpace(Head(s)) THEN TrimLeft(Tail(s)) ELSE s

RECURSIVE TrimRight(_)
TrimRight(s) ==
  IF s # <<>> /\ IsSpace(s[Len(s)]) THEN TrimRight(SubSeq(s, 1, Len(s) - 1)) ELSE s

Trim(s) == TrimRight(TrimLeft(s))

\* the character class [a-z0-9-] over the characters used here
AllowedChar(ch) == ch \in {"a", "b", "0", "-"}

Substring(s, n) == SubSeq(s, 1, IF Len(s) < n THEN Len(s) ELSE n)

TargetPeerId(k) ==
  Substring(SelectSeq(Trim(ToLowerCase(k)), AllowedChar), MaxPeerIdLen)

Keyphrases == {<<"a">>, <<" ", "A">>, <<"b">>}

\* ---- hashed peer ids ----------------------------------------------------
\* The first 8 bytes (16 hex digits) of the SHA-256 digest of the UTF-8
\* encoding of every character sequence of up to MaxIdLen + 1 characters over
\* IdChars.
IdChars == {"a", "A", "b", " "}

Sha256First8 ==
  (<<>> :> <<227, 176, 196, 66, 152, 252, 28, 20>>) @@
  (<<"a">> :> <<202, 151, 129, 18, 202, 27, 189, 202>>) @@
  (<<"A">> :> <<85, 154, 234, 208, 130, 100, 213, 121>>) @@
  (<<"b">> :> <<62, 35, 232, 22, 0, 57, 89, 74>>) @@
  (<<" ">> :> <<54, 169, 231, 241, 201, 91, 130, 255>>) @@
  (<<"a", "a">> :> <<150, 27, 109, 211, 237, 227, 203, 142>>) @@
  (<<"a", "A">> :> <<175, 28, 8, 9, 140, 241, 25, 187>>) @@
  (<<"a", "b">> :> <<251, 142, 32, 252, 46, 76, 63, 36>>) @@
  (<<"a", " ">> :> <<101, 131, 220, 214, 5, 111, 211, 42>>) @@
  (<<"A", "a">> :> <<129, 172, 170, 251, 169, 97, 187, 131>>) @@
  (<<"A", "A">> :> <<88, 187, 17, 156, 53, 81, 58, 69>>) @@
  (<<"A", "b">> :> <<2, 91, 85, 115, 203, 104, 243, 175>>) @@
  (<<"A", " ">> :> <<122, 114, 2, 251, 27, 83, 16, 95>>) @@
  (<<"b", "a">> :> <<151, 15, 81, 156, 44, 173, 188, 239>>) @@
  (<<"b", "A">> :> <<231, 21, 120, 158, 133, 137, 162, 81>>) @@
  (<<"b", "b">> :> <<59, 100, 219, 149, 203, 85, 199, 99>>) @@
  (<<"b", " ">> :> <<249, 178, 201, 202, 93, 88, 236, 113>>) @@
  (<<" ", "a">> :> <<125, 229, 152, 179, 255, 138, 153, 99>>) @@
  (<<" ", "A">> :> <<90, 143, 196, 155, 61, 84, 197, 17>>) @@
  (<<" ", "b">> :> <<203, 111, 10, 108, 122, 50, 35, 236>>) @@
  (<<" ", " ">> :> <<108, 23, 159, 33, 230, 246, 43, 98>>) @@
  (<<"a", "a", "a">> :> <<152, 52, 135, 109, 207, 176, 92, 177>>) @@
  (<<"a", "a", "A">> :> <<181, 66, 47, 78, 242, 213, 166, 171>>) @@
  (<<"a", "a", "b">> :> <<56, 118, 14, 171, 182, 102, 232, 230>>) @@
  (<<"a", "a", " ">> :> <<140, 251, 33, 44, 50, 117, 178, 181>>) @@
  (<<"a", "A", "a">> :> <<191, 215, 202, 3, 96, 12, 222, 44>>) @@
  (<<"a", "A", "A">> :> <<173, 146, 56, 128, 7, 253, 96, 230>>) @@
  (<<"a", "A", "b">> :> <<235, 98, 161, 244, 30, 181, 32, 127>>) @@
  (<<"a", "A", " ">> :> <<161, 160, 118, 137, 111, 108, 200, 229>>) @@
  (<<"a", "b", "a">> :> <<225, 36, 173, 204, 225, 251, 47, 136>>) @@
  (<<"a", "b", "A">> :> <<188, 151, 33, 194, 149, 12, 139, 146>>) @@
  (<<"a", "b", "b">> :> <<113, 94, 223, 139, 168, 114, 148, 32>>) @@
  (<<"a", "b", " ">> :> <<152, 147, 186, 130, 109, 116, 70, 238>>) @@
  (<<"a", " ", "a">> :> <<61, 95, 214, 177, 205, 228, 141, 239>>) @@
  (<<"a", " ", "A">> :> <<62, 87, 37, 47, 26, 183, 17, 19>>) @@
  (<<"a", " ", "b">> :> <<200, 104, 122, 8, 170, 93, 110, 210>>) @@
  (<<"a", " ", " ">> :> <<184, 161, 210, 154, 103, 97, 226, 212>>) @@
  (<<"A", "a", "a">> :> <<169, 80, 191, 223, 167, 187, 100, 217>>) @@
  (<<"A", "a", "A">> :> <<53, 200, 246, 47, 208, 216, 158, 217>>) @@
  (<<"A", "a", "b">> :> <<202, 213, 29, 145, 79, 96, 188, 246>>) @@
  (<<"A", "a", " ">> :> <<236, 129, 226, 215, 210, 97, 85, 122>>) @@
  (<<"A", "A", "a">> :> <<177, 54, 151, 16, 131, 166, 244, 86>>) @@
  (<<"A", "A", "A">> :> <<203, 26, 210, 17, 157, 143, 175, 182>>) @@
  (<<"A", "A", "b">> :> <<200, 8, 121, 2, 41, 142, 186, 2>>) @@
  (<<"A", "A", " ">> :> <<209, 137, 99, 155, 73, 210, 42, 173>>) @@
  (<<"A", "b", "a">> :> <<119, 14, 86, 56, 109, 47, 62, 20>>) @@
  (<<"A", "b", "A">> :> <<21, 22, 16, 185, 224, 12, 23, 154>>) @@
  (<<"A", "b", "b">> :> <<170, 3, 250, 79, 243, 11, 216, 137>>) @@
  (<<"A", "b", " ">> :> <<18, 159, 74, 37, 125, 178, 199, 138>>) @@
  (<<"A", " ", "a">> :> <<60, 73, 2, 225, 7, 160, 48, 166>>) @@
  (<<"A", " ", "A">> :> <<231, 4, 203, 172, 129, 241, 174, 80>>) @@
  (<<"A", " ", "b">> :> <<167, 96, 176, 225, 229, 24, 9, 3>>) @@
  (<<"A", " ", " ">> :> <<98, 164, 246, 76, 42, 141, 148, 222>>) @@
  (<<"b", "a", "a">> :> <<102, 94, 218, 230, 213, 38, 102, 209>>) @@
  (<<"b", "a", "A">> :> <<64, 68, 91, 131, 132, 55, 110, 59>>) @@
  (<<"b", "a", "b">> :> <<236, 221, 151, 64, 92, 121, 180, 8>>) @@
  (<<"b", "a", " ">> :> <<29, 98, 246, 61, 68, 180, 184, 106>>) @@
  (<<"b", "A", "a">> :> <<174, 70, 115, 168, 41, 64, 242, 197>>) @@
  (<<"b", "A", "A">> :> <<57, 207, 50, 137, 92, 38, 147, 66>>) @@
  (<<"b", "A", "b">> :> <<72, 157, 76, 93, 6, 162, 79, 203>>) @@
  (<<"b", "A", " ">> :> <<95, 228, 128, 223, 146, 159, 30, 198>>) @@
  (<<"b", "b", "a">> :> <<50, 78, 141, 87, 22, 175, 228, 119>>) @@
  (<<"b", "b", "A">> :> <<230, 216, 253, 93, 1, 102, 101, 154>>) @@
  (<<"b", "b", "b">> :> <<62, 116, 75, 157, 195, 147, 137, 186>>) @@
  (<<"b", "b", " ">> :> <<31, 36, 80, 44, 142, 212, 98, 151>>) @@
  (<<"b", " ", "a">> :> <<190, 237, 180, 167, 186, 52, 196, 234>>) @@
  (<<"b", " ", "A">> :> <<42, 188, 32, 133, 24, 39, 202, 178>>) @@
  (<<"b", " ", "b">> :> <<50, 184, 87, 179, 233, 36, 206, 26>>) @@
  (<<"b", " ", " ">> :> <<235, 233, 144, 170, 26, 245, 7, 169>>) @@
  (<<" ", "a", "a">> :> <<50, 50, 7, 26, 186, 186, 188, 78>>) @@
  (<<" ", "a", "A">> :> <<162, 46, 54, 186, 206, 245, 2, 18>>) @@
  (<<" ", "a", "b">> :> <<212, 4, 141, 190, 21, 116, 207, 92>>) @@
  (<<" ", "a", " ">> :> <<203, 247, 243, 0, 4, 243, 102, 124>>) @@
  (<<" ", "A", "a">> :> <<164, 44, 211, 140, 12, 218, 83, 189>>) @@
  (<<" ", "A", "A">> :> <<110, 29, 103, 225, 234, 121, 179, 237>>) @@
  (<<" ", "A", "b">> :> <<179, 217, 64, 178, 13, 97, 246, 151>>) @@
  (<<" ", "A", " ">> :> <<232, 18, 24, 229, 240, 125, 112, 242>>) @@
  (<<" ", "b", "a">> :> <<212, 132, 62, 41, 120, 9, 50, 59>>) @@
  (<<" ", "b", "A">> :> <<41, 202, 229, 149, 28, 42, 249, 245>>) @@
  (<<" ", "b", "b">> :> <<117, 55, 197, 25, 47, 158, 39, 112>>) @@
  (<<" ", "b", " ">> :> <<47, 135, 154, 12, 120, 124, 10, 224>>) @@
  (<<" ", " ", "a">> :> <<140, 72, 10, 140, 140, 85, 166, 145>>) @@
  (<<" ", " ", "A">> :> <<125, 78, 92, 59, 155, 82, 116, 8>>) @@
  (<<" ", " ", "b">> :> <<125, 40, 224, 109, 37, 243, 104, 75>>) @@
  (<<" ", " ", " ">> :> <<10, 173, 125, 167, 125, 46, 213, 156>>)

\* the alphabet hashKeyphrase maps digest bytes to
Chars == <<"a", "b", "c", "d", "e", "f", "g", "h", "i", "j", "k", "l", "m",
           "n", "o", "p", "q", "r", "s", "t", "u", "v", "w", "x", "y", "z",
           "0", "1", "2", "3", "4", "5", "6", "7", "8", "9">>

\* hashKeyphrase(keyphrase)
HashKeyphrase(k) ==
  LET bytes == Sha256First8[k] IN
  [i \in 1..Len(bytes) |-> Chars[(bytes[i] % Len(Chars)) + 1]]

\* a derivation that hashes the lowercased identifier without trimming it,
\* for comparison with ShortPeerId
ShortPeerIdUntrimmed(k) == HashKeyphrase(ToLowerCase(k))

\* initializePeer: the id the Peer object is registered under
ShortPeerId(k) == HashKeyphrase(Trim(ToLowerCase(k)))

RECURSIVE SeqsUpTo(_, _)
SeqsUpTo(S, n) ==
  IF n = 0 THEN {<<>>}
  ELSE LET shorter == SeqsUpTo(S, n - 1) IN
       shorter \cup {Append(s, ch) : s \in shorter, ch \in S}

\* the human identifiers typed by the users
HumanIdentifiers == SeqsUpTo(IdChars, MaxIdLen) \ {<<>>}

\* ---- room codes -----------------------------------------------------------
\* A value passed as a room code: a string (its characters), null, undefined
\* or a number.
Code(k, cs) == [kind |-> k, chars |-> cs]

Str(cs) == Code("string", cs)

\* the character classes \d and [a-z] over the characters used here
IsDigit(ch) == ch \in {"0", "1"}

IsLowerLetter(ch) == ch \in {"a", "b"}

\* s.split(/\s+/): cur is the part collected so far
RECURSIVE Split(_, _)
Split(s, cur) ==
  IF s = <<>> THEN <<cur>>
  ELSE IF IsSpace(Head(s)) THEN <<cur>> \o Split(TrimLeft(Tail(s)), <<>>)
  ELSE Split(Tail(s), Append(cur, Head(s)))

\* validateKeyphrase(keyphrase)
ValidateKeyphrase(code) ==
  /\ code.kind = "string"
  /\ code.chars # <<>>
  /\ LET parts == Split(Trim(code.chars), <<>>) IN
     /\ Len(parts) = 7
     /\ LET numberPart == parts[Len(parts)] IN
        /\ Len(numberPart) = 3
        /\ \A i \in 1..Len(numberPart) : IsDigit(numberPart[i])
     /\ \A w \in 1..6 :
          /\ parts[w] # <<>>
          /\ \A i \in 1..Len(parts[w]) : IsLowerLetter(Lower(parts[w][i]))

\* RoomManager.validateRoomCode(code)
validateRoomCode(code) == ValidateKeyphrase(code)

Repeat(ch, n) == [i \in 1..n |-> ch]

RECURSIVE Join(_, _)
Join(parts, sep) ==
  IF Len(parts) = 0 THEN <<>>
  ELSE IF Len(parts) = 1 THEN parts[1]
  ELSE parts[1] \o sep \o Join(Tail(parts), sep)

\* n words w and a number part, separated by sep
Phrase(w, n, num, sep) == Join([i \in 1..n |-> w] \o <<num>>, sep)

\* the values validateRoomCode and canJoinRoom are called with: codes of one
\* character class at the lengths around the limits 8 and 24, a mixed code,
\* phrases of 5 to 7 words with well-formed and malformed parts, and values
\* that are not non-empty strings
CodeInputs ==
  {Code("null", <<>>), Code("undefined", <<>>), Code("number", <<>>), Str(<<>>)}
    \cup {Str(Repeat(ch, n)) : ch \in {"a", "A", "0", "-", " "}, n \in {7, 8, 24, 25}}
    \cup {Str(<<"A", "b", "0", "1", "a", "B", "1", "0">>)}
    \cup {Str(pad \o Phrase(w, n, num, sep) \o pad) :
            pad \in {<<>>, <<" ">>},
            w \in {<<"a">>, <<"A", "b">>, <<"a", "0">>, <<"a", "-">>},
            n \in {5, 6, 7},
            num \in {<<"0", "1", "0">>, <<"0", "1">>, <<"0", "1", "0", "1">>, <<"0", "a", "0">>},
            sep \in {<<" ">>, <<" ", " ">>}}

\* ---- rooms ----------------------------------------------------------------
RoomA == Phrase(<<"a">>, 6, <<"0", "0", "0">>, <<" ">>)

\* the codes joinRoom and leaveRoom are called with
JoinCodes == {Str(RoomA), Str(Repeat("a", 8)), Code("null", <<>>)}

RoomKeys == {c.chars : c \in {j \in JoinCodes : j.kind = "string"}}

\* the device ids passed in deviceInfo.id; "" stands for a missing id
DeviceIds == {<<"d1", "d2", "d3", "d4">>[i] : i \in 1..MaxDeviceIds}

\* generateDeviceId()
GeneratedIds == {"device_1"}

DeviceInfos == [id : DeviceIds \cup {""}, isMobile : BOOLEAN]

NoRoom == [exists |-> FALSE, devices |-> <<>>]

\* activeRooms.get(roomCode)
RoomOf(rooms, code) ==
  IF code.kind = "string" /\ code.chars \in DOMAIN rooms THEN rooms[code.chars] ELSE NoRoom

\* a full-room test that admits one device too many, for comparison with
\* RoomIsFull
RoomIsFullLate(devices) == Len(devices) > MaxRoomDevices

\* canJoinRoom: room.devices.length >= 3
RoomIsFull(devices) == Len(devices) >= MaxRoomDevices

\* canJoinRoom: room.devices.some(d => d.isMobile)
HasMobile(devices) == \E i \in 1..Len(devices) : devices[i].isMobile

\* canJoinRoom(roomCode, deviceInfo): "allowed" or the reason of the refusal
canJoinRoom(rooms, code, info) ==
  LET room == RoomOf(rooms, code) IN
  IF ~validateRoomCode(code) THEN "invalid"
  ELSE IF room.exists /\ RoomIsFull(room.devices) THEN "full"
  ELSE IF room.exists /\ info.isMobile /\ HasMobile(room.devices) THEN "mobile"
  ELSE "allowed"

\* a leave that keeps the room when its last device left, for comparison with
\* RoomAfterLeave
RoomAfterLeaveKept(room, id) ==
  [room EXCEPT !.devices = SelectSeq(room.devices, LAMBDA d : d.id # id)]

\* leaveRoom: the room without the devices of that id, deleted when empty
RoomAfterLeave(room, id) ==
  LET rest == SelectSeq(room.devices, LAMBDA d : d.id # id) IN
  IF rest = <<>> THEN NoRoom ELSE [room EXCEPT !.devices = rest]

\* saveRoomsToStorage: the entries written to the 'activeRooms' item
SavedRooms(rooms) ==
  [saved |-> TRUE,
   rooms |-> {[code |-> k, devices |-> rooms[k].devices] : k \in {r \in DOMAIN rooms : rooms[r].exists}}]

\* ---- throttle ---------------------------------------------------------------
\* the limit passed to throttle(func, limit), in clock ticks
ThrottleLimit == 2

\* the arguments the throttled function is called with
ThrottleArgs == {"x", "y"}

NoCall == [at |-> -1, arg |-> "none", ran |-> FALSE, prev |-> -1]

\* throttle(func, limit) has returned: inThrottle is undefined, no timer is
\* armed; lastRun and passed record the last invocation of func, call the
\* last call of the throttled function
NotCalled ==
  [inThrottle |-> FALSE, timer |-> FALSE, due |-> 0, now |-> 0,
   lastRun |-> -1, passed |-> "none", call |-> NoCall]

NoRoomCall ==
  [op |-> "none", code |-> Code("undefined", <<>>), id |-> "", isMobile |-> FALSE,
   result |-> "none"]

RoomCall(o, c, i, m, r) == [op |-> o, code |-> c, id |-> i, isMobile |-> m, result |-> r]

Addr == {TargetPeerId(k) : k \in Keyphrases}

\* A scope bounds how many Peer objects, connect operations, channels and
\* reconnection timers one run creates.
Scope(i, o, c, t) ==
  [inits |-> i, ops |-> o, chans |-> c, timers |-> t, pings |-> 0, promises |-> FALSE]

\* a scope that also counts up to n unanswered quality pings per address
WithPings(L, n) == [L EXCEPT !.pings = n]

\* a scope that also follows the promise each initializePeer call returns
WithPromises(L) == [L EXCEPT !.promises = TRUE]

NoQuality == [rtt |-> -1, level |-> "none"]

\* a pingId `${peerId}-${Date.now()}`
PingId(p, t) == [peer |-> p, at |-> t]

NoPingId == PingId(<<>>, -1)

NoMsg == [type |-> "none", scope |-> "none", address |-> <<>>, timestamp |-> -1,
          pingId |-> NoPingId, label |-> "none"]

NoData == [from |-> <<>>, msg |-> NoMsg, forwarded |-> FALSE, notified |-> "none",
           delivered |-> <<>>]

NoSend == [ret |-> "none", attempted |-> {}, accepted |-> {}]

NoIdentity == [h1 |-> <<>>, h2 |-> <<>>, derived |-> FALSE, id1 |-> <<>>, id2 |-> <<>>,
               dialled |-> FALSE, target |-> <<>>]

NoAct == [name |-> "none", peer |-> <<>>, call |-> "none"]

\* ---- arithmetic -----------------------------------------------------------
RECURSIVE Pow2(_)
Pow2(n) == IF n <= 0 THEN 1 ELSE 2 * Pow2(n - 1)

Min(a, b) == IF a < b THEN a ELSE b

\* a wait that doubles without a cap, for comparison with RetryWait
RetryWaitUncapped(attempt) == RetryBaseMs * Pow2(attempt - 1)

\* attemptConnection: Math.min(1000 * Math.pow(2, attempt - 1), 4000)
RetryWait(attempt) == Min(RetryBaseMs * Pow2(attempt - 1), RetryCapMs)

\* a backoff whose cap is one doubling short, for comparison with ReconnectDelay
ReconnectDelayShortCap(attempts) == Min(ReconnectBaseMs * Pow2(attempts), ReconnectCapMs \div 2)

\* attemptReconnection: Math.min(1000 * Math.pow(2, attempts), 16000)
ReconnectDelay(attempts) == Min(ReconnectBaseMs * Pow2(attempts), ReconnectCapMs)

\* an exhaustion test that allows one attempt more, for comparison with
\* ReconnectExhausted
ReconnectExhaustedLate(attempts) == attempts > MaxReconnectAttempts

\* attemptReconnection: if (attempts >= maxAttempts) return
ReconnectExhausted(attempts) == attempts >= MaxReconnectAttempts

\* an exhaustion test that gives up one attempt early, for comparison with
\* RetriesExhausted
RetriesExhaustedEarly(attempt, maxRetries) == attempt + 1 >= maxRetries

\* attemptConnection: if (attempt >= maxRetries) throw
RetriesExhausted(attempt, maxRetries) == attempt >= maxRetries

\* a readiness test that looks at this.peer only, for comparison with NotReady
NotReadyPeerOnly == peer = 0

\* connectToPeer: if (!this.peer || !this.isReady) throw
NotReady == peer = 0 \/ ~isReady

\* a tier function whose thresholds are inclusive, for comparison with
\* QualityLevel
QualityLevelInclusive(rtt) ==
  IF rtt <= 50 THEN "excellent"
  ELSE IF rtt <= 100 THEN "good"
  ELSE IF rtt <= 200 THEN "fair"
  ELSE "poor"

\* updateConnectionQuality: the tier of a round-trip time in ms
QualityLevel(rtt) ==
  IF rtt < 50 THEN "excellent"
  ELSE IF rtt < 100 THEN "good"
  ELSE IF rtt < 200 THEN "fair"
  ELSE "poor"

\* ---- messages -------------------------------------------------------------
\* A received message: its type, for discovery messages the scope (room code)
\* it carries compared with the local one and the address it announces, and
\* its timestamp field (-1: none).
Msg(t, sc, a, ts) ==
  [type |-> t, scope |-> sc, address |-> a, timestamp |-> ts, pingId |-> NoPingId,
   label |-> "none"]

\* a quality_pong: the pingId it echoes and the sender's Date.now()
Pong(id, ts) == [Msg("quality_pong", "none", <<>>, ts) EXCEPT !.pingId = id]

\* a handshake: its displayKeyphrase ("none": the field is missing)
Handshake(l) == [Msg("handshake", "none", <<>>, -1) EXCEPT !.label = l]

\* Date.now() when the manager is constructed
Epoch == 300

RttSamples == {0, 30, 49, 50, 80, 99, 100, 150, 199, 200, 300}

\* pongs whose timestamps lie an RttSamples value before Epoch
PongMessages == {Pong(NoPingId, Epoch - r) : r \in RttSamples}

PingMessages == {Msg("quality_ping", "none", <<>>, -1)}

HandshakeMessages == {Handshake("label")}

\* discovery announcements: the scope they carry is the local one or another
\* one, and they name the address of the announcing peer
DiscoveryMessages ==
  {Msg(t, sc, p, -1) : t \in {"discovery_ping", "discovery_pong"},
                       sc \in {"same", "other"}, p \in Addr}

\* an application message, and a string that is not JSON
AppMessages == {Msg("data", "none", <<>>, -1), Msg("invalid", "none", <<>>, -1)}

Messages ==
  HandshakeMessages \cup PingMessages \cup {m \in PongMessages : m.timestamp = Epoch - 30}
    \cup DiscoveryMessages \cup AppMessages

\* ---- initial state: the constructor ---------------------------------------
Constructed ==
  /\ peer = 0
  /\ sessions = <<>>
  /\ peerId = "null"
  /\ isReady = FALSE
  /\ connectionStatus = "disconnected"
  /\ connections = [p \in Addr |-> 0]
  /\ reconnectAttempts = [p \in Addr |-> 0]
  /\ reconnectTimers = [p \in Addr |-> 0]
  /\ timers = <<>>
  /\ pendingConnections = [p \in Addr |-> 0]
  /\ ops = <<>>
  /\ chans = <<>>
  /\ qualityIntervals = [p \in Addr |-> 0]
  /\ act = NoAct
  /\ connectionQuality = [p \in Addr |-> NoQuality]
  /\ unanswered = [p \in Addr |-> 0]
  /\ lastData = NoData
  /\ lastSend = NoSend
  /\ activeRooms = [k \in RoomKeys |-> NoRoom]
  /\ localStorage = [saved |-> FALSE, rooms |-> {}]
  /\ roomCall = NoRoomCall
  /\ throttled = NotCalled
  /\ clock = Epoch
  /\ pings = {}
  /\ displayKeyphrase = "null"
  /\ dataCallbacks = <<>>
  /\ connectionHandshakes = [p \in Addr |-> FALSE]

Init == Constructed /\ identity = NoIdentity

\* two users, each about to type a human identifier
InitIdentity ==
  /\ Constructed
  /\ \E x \in HumanIdentifiers, y \in HumanIdentifiers :
       identity = [NoIdentity EXCEPT !.h1 = x, !.h2 = y]

\* ---- helpers ----------------------------------------------------------------
Act(n, p, c) == [name |-> n, peer |-> p, call |-> c]

Settled(op) == op.st \in {"resolved", "rejected"}

\* createConnection: what this.peer.connect() gives.  A null this.peer makes
\* the call throw inside the try block, a closed Peer returns no object.
CreateOutcome ==
  IF peer = 0 THEN "typeerror"
  ELSE IF sessions[peer].st = "closed" THEN "noobject"
  ELSE "channel"

\* a test that never finds the attempt settled, for comparison with HasResolved
HasResolvedNever(ch) == FALSE

\* createConnection: the closure variable hasResolved of the channel's handlers
HasResolved(ch) == ch.hasResolved

\* the DataConnection made by createConnection with its closure variables;
\* outcome is what createConnection's promise was settled with
NewChan(p, o) ==
  [peer |-> p, dir |-> "out", sess |-> peer, op |-> o, tst |-> "connecting",
   hasResolved |-> FALSE, timeout |-> TRUE, interval |-> FALSE, sent |-> <<>>,
   outcome |-> "none"]

\* the DataConnection handed to handleIncomingConnection
IncomingChan(p, s) ==
  [peer |-> p, dir |-> "in", sess |-> s, op |-> 0, tst |-> "connecting",
   hasResolved |-> FALSE, timeout |-> FALSE, interval |-> FALSE, sent |-> <<>>,
   outcome |-> "none"]

\* what connection.send() was given: a handshake with its from and
\* displayKeyphrase fields, or a quality ping
Sent(t, f, l) == [type |-> t, from |-> f, label |-> l]

\* a handshake that leaves out the label, for comparison with sendHandshake
sendHandshakeUnlabelled == Sent("handshake", peerId, "null")

\* sendHandshake(peerId, connection)
sendHandshake == Sent("handshake", peerId, displayKeyphrase)

\* attemptConnection, catch block: the attempt's promise was rejected
FailedOp(op, reason) ==
  IF RetriesExhausted(op.attempt, op.max)
  THEN [op EXCEPT !.st = "rejected", !.chan = 0,
                  !.fails = Append(op.fails, reason),
                  !.err = [count |-> op.max, reason |-> reason]]
  ELSE [op EXCEPT !.st = "backoff", !.chan = 0,
                  !.fails = Append(op.fails, reason),
                  !.wait = RetryWait(op.attempt)]

\* attemptConnection, one turn of the while loop up to its await
LoopTurn(op, o) ==
  IF op.attempt < op.max
  THEN LET op1 == [op EXCEPT !.attempt = @ + 1] IN
       IF CreateOutcome = "channel"
       THEN [op1 EXCEPT !.st = "await", !.chan = Len(chans) + 1, !.dials = @ + 1]
       ELSE FailedOp(op1, CreateOutcome)
  ELSE [op EXCEPT !.st = "resolved", !.chan = 0]

\* attemptConnection from the loop test on; pc is pendingConnections as the
\* caller left it.  The finally callback of connectToPeer deletes the entry
\* of the target once the promise has settled.
RunAttempt(o, op, pc, L) ==
  LET new == LoopTurn(op, o) IN
  /\ new.st = "await" => Len(chans) < L.chans
  /\ ops' = IF o > Len(ops) THEN Append(ops, new) ELSE [ops EXCEPT ![o] = new]
  /\ chans' = IF new.st = "await" THEN Append(chans, NewChan(op.target, o)) ELSE chans
  /\ pendingConnections' = IF Settled(new) THEN [pc EXCEPT ![op.target] = 0] ELSE pc

\* connectToPeer(peerIdKeyphrase, maxRetries), called by nm
connectToPeer(k, n, nm, L) ==
  LET target == TargetPeerId(k)
      o == Len(ops) + 1
      op0 == [target |-> target, max |-> n, attempt |-> 0, st |-> "new", chan |-> 0,
              wait |-> 0, fails |-> <<>>, dials |-> 0,
              err |-> [count |-> 0, reason |-> "none"]]
  IN
  IF NotReady
  THEN /\ act' = Act(nm, target, "NotReady")
       /\ UNCHANGED <<ops, chans, pendingConnections>>
  ELSE IF connections[target] # 0
  THEN /\ act' = Act(nm, target, "existing")
       /\ UNCHANGED <<ops, chans, pendingConnections>>
  ELSE IF pendingConnections[target] # 0
  THEN /\ act' = Act(nm, target, "pending")
       /\ UNCHANGED <<ops, chans, pendingConnections>>
  ELSE /\ Len(ops) < L.ops
       /\ act' = Act(nm, target, "started")
       /\ RunAttempt(o, op0, [pendingConnections EXCEPT ![target] = o], L)

\* attemptReconnection(peerId)
attemptReconnection(p, L) ==
  IF ReconnectExhausted(reconnectAttempts[p])
  THEN UNCHANGED <<reconnectAttempts, timers, reconnectTimers>>
  ELSE /\ Len(timers) < L.timers
       /\ reconnectAttempts' = [reconnectAttempts EXCEPT ![p] = @ + 1]
       /\ timers' = Append(timers, [peer |-> p, n |-> reconnectAttempts[p] + 1,
                                    delay |-> ReconnectDelay(reconnectAttempts[p]),
                                    armed |-> TRUE])
       /\ reconnectTimers' = [reconnectTimers EXCEPT ![p] = Len(timers) + 1]

\* stopQualityMonitoring(peerId) applied to the channel records cs
StopQuality(cs, p) ==
  [i \in 1..Len(cs) |->
     IF i = qualityIntervals[p] THEN [cs[i] EXCEPT !.interval = FALSE] ELSE cs[i]]

\* ---- the application calls --------------------------------------------------
InitializePeer(L) ==
  /\ Len(sessions) < L.inits
  /\ sessions' = Append(sessions, [st |-> "new", timer |-> TRUE,
                                    init |-> IF L.promises THEN "pending" ELSE "unobserved"])
  /\ peer' = Len(sessions) + 1
  /\ act' = Act("initializePeer", <<>>, "none")
  /\ displayKeyphrase' = "label"
  /\ UNCHANGED <<peerId, isReady, connectionStatus, connections, reconnectAttempts,
                 reconnectTimers, timers, pendingConnections, ops, chans,
                 qualityIntervals>>
  /\ UNCHANGED <<connectionQuality, unanswered, lastData, lastSend, identity, roomVars,
                 throttleVars, clock, pings, dataCallbacks, connectionHandshakes>>

ConnectToPeer(k, n, L) ==
  /\ connectToPeer(k, n, "connectToPeer", L)
  /\ UNCHANGED <<peer, sessions, peerId, isReady, connectionStatus, connections,
                 reconnectAttempts, reconnectTimers, timers, qualityIntervals>>
  /\ UNCHANGED dataVars

CancelReconnection(p) ==
  /\ timers' = [i \in 1..Len(timers) |->
                  IF i = reconnectTimers[p] THEN [timers[i] EXCEPT !.armed = FALSE]
                  ELSE timers[i]]
  /\ reconnectTimers' = [reconnectTimers EXCEPT ![p] = 0]
  /\ reconnectAttempts' = [reconnectAttempts EXCEPT ![p] = 0]
  /\ act' = Act("cancelReconnection", p, "none")
  /\ UNCHANGED <<peer, sessions, peerId, isReady, connectionStatus, connections,
                 pendingConnections, ops, chans, qualityIntervals>>
  /\ UNCHANGED dataVars

CloseConnection ==
  /\ timers' = [i \in 1..Len(timers) |->
                  IF \E p \in Addr : reconnectTimers[p] = i
                  THEN [timers[i] EXCEPT !.armed = FALSE] ELSE timers[i]]
  /\ reconnectTimers' = [p \in Addr |-> 0]
  /\ reconnectAttempts' = [p \in Addr |-> 0]
  /\ pendingConnections' = [p \in Addr |-> 0]
  /\ chans' = [i \in 1..Len(chans) |->
       LET c == chans[i]
           registered == connections[c.peer] = i
           stored == qualityIntervals[c.peer] = i
           destroyed == peer # 0 /\ c.sess = peer
       IN [c EXCEPT !.tst = IF registered \/ destroyed THEN "dead" ELSE @,
                    !.interval = IF stored THEN FALSE ELSE @]]
  /\ connections' = [p \in Addr |-> 0]
  /\ qualityIntervals' = [p \in Addr |-> 0]
  /\ sessions' = [i \in 1..Len(sessions) |->
                    IF i = peer THEN [sessions[i] EXCEPT !.st = "destroyed"]
                    ELSE sessions[i]]
  /\ peer' = 0
  /\ peerId' = "null"
  /\ isReady' = FALSE
  /\ connectionStatus' = "disconnected"
  /\ act' = Act("closeConnection", <<>>, "none")
  /\ UNCHANGED ops
  /\ UNCHANGED dataVars

\* ---- events of the signaling client (Peer objects) ------------------------
\* error.type of a Peer 'error' event
ErrorTypes == {"peer-unavailable", "network", "other"}

\* initializePeer, error handler: the types it returns early for
Recoverable(type) == type \in {"peer-unavailable", "network"}

\* resolve or reject of initializePeer's promise: the first call settles it
SettleInit(sess, outcome) == IF sess.init = "pending" THEN outcome ELSE sess.init

PeerOpen(s) ==
  /\ sessions[s].st = "new"
  /\ sessions' = [sessions EXCEPT ![s] = [st |-> "open", timer |-> FALSE,
                                         init |-> SettleInit(sessions[s], "resolved")]]
  /\ peerId' = "id"
  /\ isReady' = TRUE
  /\ connectionStatus' = "connected"
  /\ act' = Act("peerOpen", <<>>, "none")
  /\ UNCHANGED <<peer, connections, reconnectAttempts, reconnectTimers, timers,
                 pendingConnections, ops, chans, qualityIntervals>>
  /\ UNCHANGED dataVars

PeerError(s) ==
  /\ sessions[s].st \in {"new", "open"}
  /\ \E type \in ErrorTypes :
       sessions' = [sessions EXCEPT
                      ![s].timer = FALSE,
                      ![s].init = IF Recoverable(type) \/ peerId # "null" THEN @
                                  ELSE SettleInit(sessions[s], "rejected")]
  /\ connectionStatus' = "error"
  /\ act' = Act("peerError", <<>>, "none")
  /\ UNCHANGED <<peer, peerId, isReady, connections, reconnectAttempts,
                 reconnectTimers, timers, pendingConnections, ops, chans,
                 qualityIntervals>>
  /\ UNCHANGED dataVars

PeerClose(s) ==
  /\ sessions[s].st \in {"new", "open"}
  /\ sessions' = [sessions EXCEPT ![s].st = "closed"]
  /\ connectionStatus' = "disconnected"
  /\ isReady' = FALSE
  /\ act' = Act("peerClose", <<>>, "none")
  /\ UNCHANGED <<peer, peerId, connections, reconnectAttempts, reconnectTimers,
                 timers, pendingConnections, ops, chans, qualityIntervals>>
  /\ UNCHANGED dataVars

InitTimeout(s) ==
  /\ sessions[s].timer
  /\ sessions' = [sessions EXCEPT
                    ![s].timer = FALSE,
                    ![s].init = IF peerId = "null" THEN SettleInit(sessions[s], "rejected")
                                ELSE @]
  /\ connectionStatus' = IF peerId = "null" THEN "error" ELSE connectionStatus
  /\ act' = Act("initTimeout", <<>>, "none")
  /\ UNCHANGED <<peer, peerId, isReady, connections, reconnectAttempts,
                 reconnectTimers, timers, pendingConnections, ops, chans,
                 qualityIntervals>>
  /\ UNCHANGED dataVars

IncomingConnection(s, p, L) ==
  /\ sessions[s].st = "open"
  /\ Len(chans) < L.chans
  /\ chans' = Append(chans, IncomingChan(p, s))
  /\ act' = Act("handleIncomingConnection", p, "none")
  /\ UNCHANGED <<peer, sessions, peerId, isReady, connectionStatus, connections,
                 reconnectAttempts, reconnectTimers, timers, pendingConnections,
                 ops, qualityIntervals>>
  /\ UNCHANGED dataVars


\* ---- events of the data channels --------------------------------------------
\* The handlers are registered on every channel as soon as it exists, so the
\* transport may report 'open', 'close' and 'error' in any order while the
\* channel lives; a channel closed locally (DataConnection.close on a channel
\* that is not open, Peer.destroy) reports nothing more.
\* 'open': createConnection's handler for an outgoing channel,
\* handleIncomingConnection's for an incoming one
ChannelOpen(c) ==
  LET ch == chans[c]
      p == ch.peer
  IN
  /\ ch.tst = "connecting"
  /\ act' = Act("channelOpen", p, "none")
  /\ IF ch.dir = "out" /\ HasResolved(ch)
     THEN /\ chans' = [chans EXCEPT ![c].tst = "open"]
          /\ UNCHANGED <<connections, reconnectAttempts, connectionStatus,
                         qualityIntervals, ops, pendingConnections>>
     ELSE IF ch.dir = "out"
     THEN /\ chans' = [chans EXCEPT ![c] = [ch EXCEPT !.tst = "open", !.hasResolved = TRUE,
                                                     !.timeout = FALSE, !.interval = TRUE,
                                                     !.sent = Append(@, sendHandshake),
                                                     !.outcome = "opened"]]
          /\ connections' = [connections EXCEPT ![p] = c]
          /\ reconnectAttempts' = [reconnectAttempts EXCEPT ![p] = 0]
          /\ connectionStatus' = "connected"
          /\ qualityIntervals' = [qualityIntervals EXCEPT ![p] = c]
          /\ ops' = [ops EXCEPT ![ch.op] = [@ EXCEPT !.st = "resolved", !.chan = c]]
          /\ pendingConnections' = [pendingConnections EXCEPT ![p] = 0]
     ELSE /\ chans' = [chans EXCEPT ![c] = [ch EXCEPT !.tst = "open", !.interval = TRUE,
                                                     !.sent = Append(@, sendHandshake)]]
          /\ connections' = [connections EXCEPT ![p] = c]
          /\ connectionStatus' = "connected"
          /\ qualityIntervals' = [qualityIntervals EXCEPT ![p] = c]
          /\ UNCHANGED <<reconnectAttempts, ops, pendingConnections>>
  /\ UNCHANGED <<peer, sessions, peerId, isReady, reconnectTimers, timers>>
  /\ UNCHANGED dataVars

\* 'close' reported by the transport
ChannelClose(c, L) ==
  LET ch == chans[c]
      p == ch.peer
  IN
  /\ ch.tst \in {"connecting", "open"}
  /\ act' = Act("channelClose", p, "none")
  /\ chans' = [StopQuality(chans, p) EXCEPT ![c].tst = "closed", ![c].timeout = FALSE]
  /\ connections' = [connections EXCEPT ![p] = 0]
  /\ qualityIntervals' = [qualityIntervals EXCEPT ![p] = 0]
  /\ connectionStatus' = "disconnected"
  /\ IF ch.dir = "out" /\ ~HasResolved(ch)
     THEN attemptReconnection(p, L)
     ELSE UNCHANGED <<reconnectAttempts, timers, reconnectTimers>>
  /\ UNCHANGED <<peer, sessions, peerId, isReady, pendingConnections, ops>>
  /\ connectionQuality' = [connectionQuality EXCEPT ![p] = NoQuality]
  /\ unanswered' = [unanswered EXCEPT ![p] = 0]
  /\ UNCHANGED <<lastData, lastSend, identity>>
  /\ UNCHANGED <<roomVars, throttleVars, planeVars>>

\* 'error' reported by the transport
ChannelError(c) ==
  LET ch == chans[c]
      p == ch.peer
  IN
  /\ ch.tst \in {"connecting", "open", "closed"}
  /\ act' = Act("channelError", p, "none")
  /\ IF ch.dir = "out" /\ HasResolved(ch)
     THEN /\ chans' = [chans EXCEPT ![c].timeout = FALSE]
          /\ UNCHANGED <<connections, ops, pendingConnections>>
     ELSE IF ch.dir = "out"
     THEN LET new == FailedOp(ops[ch.op], "error") IN
          /\ chans' = [chans EXCEPT ![c].timeout = FALSE, ![c].hasResolved = TRUE,
                                    ![c].outcome = "errored"]
          /\ connections' = [connections EXCEPT ![p] = 0]
          /\ ops' = [ops EXCEPT ![ch.op] = new]
          /\ pendingConnections' = IF Settled(new)
                                   THEN [pendingConnections EXCEPT ![p] = 0]
                                   ELSE pendingConnections
     ELSE /\ connections' = [connections EXCEPT ![p] = 0]
          /\ UNCHANGED <<chans, ops, pendingConnections>>
  /\ UNCHANGED <<peer, sessions, peerId, isReady, connectionStatus, reconnectAttempts,
                 reconnectTimers, timers, qualityIntervals>>
  /\ UNCHANGED dataVars

\* ---- timer callbacks ----------------------------------------------------------
\* createConnection: the 20 s connection timeout
ConnectTimeout(c) ==
  LET ch == chans[c]
      new == FailedOp(ops[ch.op], "timeout")
  IN
  /\ ch.timeout
  /\ act' = Act("connectTimeout", ch.peer, "none")
  /\ IF ~HasResolved(ch)
     THEN /\ chans' = [chans EXCEPT ![c] = [ch EXCEPT !.timeout = FALSE, !.hasResolved = TRUE,
                                                     !.tst = "dead", !.outcome = "timedout"]]
          /\ ops' = [ops EXCEPT ![ch.op] = new]
          /\ pendingConnections' = IF Settled(new)
                                   THEN [pendingConnections EXCEPT ![ch.peer] = 0]
                                   ELSE pendingConnections
     ELSE /\ chans' = [chans EXCEPT ![c].timeout = FALSE]
          /\ UNCHANGED <<ops, pendingConnections>>
  /\ UNCHANGED <<peer, sessions, peerId, isReady, connectionStatus, connections,
                 reconnectAttempts, reconnectTimers, timers, qualityIntervals>>
  /\ UNCHANGED dataVars

\* attemptConnection: the backoff wait is over, next turn of the loop
RetryBackoff(o, L) ==
  /\ ops[o].st = "backoff"
  /\ act' = Act("retryBackoff", ops[o].target, "none")
  /\ RunAttempt(o, ops[o], pendingConnections, L)
  /\ UNCHANGED <<peer, sessions, peerId, isReady, connectionStatus, connections,
                 reconnectAttempts, reconnectTimers, timers, qualityIntervals>>
  /\ UNCHANGED dataVars

\* attemptReconnection: the timer callback
ReconnectTimer(t, L) ==
  /\ timers[t].armed
  /\ timers' = [timers EXCEPT ![t].armed = FALSE]
  /\ connectToPeer(timers[t].peer, 1, "reconnectTimer", L)
  /\ UNCHANGED <<peer, sessions, peerId, isReady, connectionStatus, connections,
                 reconnectAttempts, reconnectTimers, qualityIntervals>>
  /\ UNCHANGED dataVars

\* startQualityMonitoring: the 2 s interval callback of channel c
QualityTick(c, L) ==
  LET ch == chans[c] IN
  /\ ch.interval
  /\ IF connections[ch.peer] = 0
     THEN /\ chans' = [chans EXCEPT ![c].interval = FALSE]
          /\ act' = Act("qualityTick", ch.peer, "cleared")
          /\ UNCHANGED <<unanswered, pings>>
     ELSE IF ch.tst = "open"
     THEN /\ chans' = IF Len(ch.sent) < L.pings
                      THEN [chans EXCEPT ![c].sent = Append(@, Sent("quality_ping", "none", "none"))]
                      ELSE chans
          /\ act' = Act("qualityTick", ch.peer, "sent")
          /\ unanswered' = [unanswered EXCEPT ![ch.peer] = Min(@ + 1, L.pings)]
          /\ pings' = IF Cardinality(pings) < L.pings
                      THEN pings \cup {[chan |-> c, pingId |-> PingId(ch.peer, clock),
                                        timestamp |-> clock]}
                      ELSE pings
     ELSE /\ chans' = [chans EXCEPT ![c].interval = FALSE]
          /\ act' = Act("qualityTick", ch.peer, "sendFailed")
          /\ UNCHANGED <<unanswered, pings>>
  /\ UNCHANGED <<peer, sessions, peerId, isReady, connectionStatus, connections,
                 reconnectAttempts, reconnectTimers, timers, pendingConnections,
                 ops, qualityIntervals>>
  /\ UNCHANGED <<connectionQuality, lastData, lastSend, identity>>
  /\ UNCHANGED <<roomVars, throttleVars, clock, displayKeyphrase, dataCallbacks,
                 connectionHandshakes>>

\* ---- data received on a channel -------------------------------------------
\* a loop over the subscribers that a throwing callback ends, for comparison
\* with ForEachCallback
RECURSIVE ForEachUncaught(_, _, _)
ForEachUncaught(cbs, i, m) ==
  IF i > Len(cbs) THEN <<>>
  ELSE <<[sub |-> i, msg |-> m, threw |-> cbs[i].throws]>>
         \o (IF cbs[i].throws THEN <<>> ELSE ForEachUncaught(cbs, i + 1, m))

\* this.dataCallbacks.forEach(callback => { try { callback(parsedData, peerId) }
\* catch ... }) from subscriber i on: the calls made, in order
RECURSIVE ForEachCallback(_, _, _)
ForEachCallback(cbs, i, m) ==
  IF i > Len(cbs) THEN <<>>
  ELSE <<[sub |-> i, msg |-> m, threw |-> cbs[i].throws]>> \o ForEachCallback(cbs, i + 1, m)

\* onDataReceived(callback); throws tells whether the callback throws when called
OnDataReceived(throws) ==
  /\ Len(dataCallbacks) < MaxCallbacks
  /\ dataCallbacks' = Append(dataCallbacks, [throws |-> throws])
  /\ act' = Act("onDataReceived", <<>>, "none")
  /\ UNCHANGED <<peer, sessions, peerId, isReady, connectionStatus, connections,
                 reconnectAttempts, reconnectTimers, timers, pendingConnections, ops,
                 chans, qualityIntervals>>
  /\ UNCHANGED <<connectionQuality, unanswered, lastData, lastSend, identity, roomVars,
                 throttleVars, clock, pings, displayKeyphrase, connectionHandshakes>>

\* handleDataReceived(peerId, data) for a message m that arrives on channel c
HandleDataReceived(c, m) ==
  LET ch == chans[c]
      p == ch.peer
      consumed == m.type \in {"invalid", "handshake", "quality_ping", "quality_pong"}
      rtt == clock - m.timestamp
  IN
  /\ ch.tst = "open"
  /\ act' = Act("handleDataReceived", p, "none")
  /\ lastData' = [from |-> p, msg |-> m, forwarded |-> ~consumed,
                  notified |-> IF m.type # "handshake" THEN "none"
                               ELSE IF m.label # "none" THEN m.label ELSE "peerId",
                  delivered |-> IF consumed THEN <<>>
                                ELSE ForEachCallback(dataCallbacks, 1, m)]
  /\ connectionStatus' = IF m.type = "handshake" THEN "connected" ELSE connectionStatus
  /\ IF m.type = "quality_pong" /\ connections[p] # 0
     THEN /\ connectionQuality' = [connectionQuality EXCEPT
                                     ![p] = [rtt |-> rtt, level |-> QualityLevel(rtt)]]
          /\ unanswered' = [unanswered EXCEPT ![p] = 0]
     ELSE UNCHANGED <<connectionQuality, unanswered>>
  /\ UNCHANGED <<peer, sessions, peerId, isReady, connections, reconnectAttempts,
                 reconnectTimers, timers, pendingConnections, ops, chans,
                 qualityIntervals, lastSend, identity>>
  /\ UNCHANGED <<roomVars, throttleVars, planeVars>>

\* ---- sendData --------------------------------------------------------------
\* sendData(data) for a JSON-equivalent payload; accepts is the set of channels
\* whose send() does not throw
SendData(accepts) ==
  LET registered == {connections[p] : p \in Addr} \ {0}
      attempted == {c \in registered : chans[c].tst = "open"}
      success == attempted \cap accepts
      fail == (registered \ attempted) \cup (attempted \ accepts)
      ret == IF registered = {} THEN "false"
             ELSE IF fail # {} /\ success = {} THEN "false"
             ELSE "true"
  IN
  /\ accepts \subseteq 1..Len(chans)
  /\ act' = Act("sendData", <<>>, ret)
  /\ lastSend' = [ret |-> ret,
                  attempted |-> IF registered = {} THEN {} ELSE attempted,
                  accepted |-> IF registered = {} THEN {} ELSE success]
  /\ connectionStatus' = IF registered # {} /\ fail # {} /\ success = {}
                         THEN "error" ELSE connectionStatus
  /\ UNCHANGED <<peer, sessions, peerId, isReady, connections, reconnectAttempts,
                 reconnectTimers, timers, pendingConnections, ops, chans,
                 qualityIntervals, connectionQuality, unanswered, lastData, identity>>
  /\ UNCHANGED <<roomVars, throttleVars, planeVars>>

\* ---- identifier derivation ------------------------------------------------
\* initializePeer, the computation of shortPeerId, for each of the identifiers
InitializePeerId ==
  /\ ~identity.derived
  /\ identity' = [identity EXCEPT !.derived = TRUE,
                                  !.id1 = ShortPeerId(identity.h1),
                                  !.id2 = ShortPeerId(identity.h2)]
  /\ act' = Act("initializePeerId", <<>>, "none")
  /\ UNCHANGED <<peer, sessions, peerId, isReady, connectionStatus, connections,
                 reconnectAttempts, reconnectTimers, timers, pendingConnections,
                 ops, chans, qualityIntervals, connectionQuality, unanswered,
                 lastData, lastSend>>
  /\ UNCHANGED <<roomVars, throttleVars, planeVars>>

\* connectToPeer, the computation of targetPeerId, for the first identifier
ConnectTargetPeerId ==
  /\ ~identity.dialled
  /\ identity' = [identity EXCEPT !.dialled = TRUE,
                                  !.target = TargetPeerId(identity.h1)]
  /\ act' = Act("connectTargetPeerId", <<>>, "none")
  /\ UNCHANGED <<peer, sessions, peerId, isReady, connectionStatus, connections,
                 reconnectAttempts, reconnectTimers, timers, pendingConnections,
                 ops, chans, qualityIntervals, connectionQuality, unanswered,
                 lastData, lastSend>>
  /\ UNCHANGED <<roomVars, throttleVars, planeVars>>

\* ---- RoomManager ----------------------------------------------------------
webrtcVars ==
  <<peer, sessions, peerId, isReady, connectionStatus, connections,
    reconnectAttempts, reconnectTimers, timers, pendingConnections, ops, chans,
    qualityIntervals, act, connectionQuality, unanswered, lastData, lastSend,
    identity, planeVars>>

ValidateRoomCode(code) ==
  /\ roomCall' = RoomCall("validateRoomCode", code, "", FALSE,
                          IF validateRoomCode(code) THEN "true" ELSE "false")
  /\ UNCHANGED <<activeRooms, localStorage>>
  /\ UNCHANGED <<webrtcVars, throttleVars>>

CanJoinRoom(code, info) ==
  /\ roomCall' = RoomCall("canJoinRoom", code, info.id, info.isMobile,
                          canJoinRoom(activeRooms, code, info))
  /\ UNCHANGED <<activeRooms, localStorage>>
  /\ UNCHANGED <<webrtcVars, throttleVars>>

\* joinRoom(roomCode, deviceInfo); gen is the id generateDeviceId() returns
JoinRoom(code, info, gen) ==
  LET canJoin == canJoinRoom(activeRooms, code, info)
      room == RoomOf(activeRooms, code)
      device == [id |-> IF info.id # "" THEN info.id ELSE gen,
                 type |-> IF info.isMobile THEN "Mobile" ELSE "Desktop",
                 isMobile |-> info.isMobile]
  IN
  IF canJoin # "allowed"
  THEN /\ roomCall' = RoomCall("joinRoom", code, info.id, info.isMobile, canJoin)
       /\ UNCHANGED <<activeRooms, localStorage>>
       /\ UNCHANGED <<webrtcVars, throttleVars>>
  ELSE /\ activeRooms' = [activeRooms EXCEPT ![code.chars] =
                            [exists |-> TRUE, devices |-> Append(room.devices, device)]]
       /\ localStorage' = SavedRooms(activeRooms')
       /\ roomCall' = RoomCall("joinRoom", code, device.id, info.isMobile, "joined")
       /\ UNCHANGED <<webrtcVars, throttleVars>>

LeaveRoom(code, id) ==
  LET room == RoomOf(activeRooms, code) IN
  IF ~room.exists
  THEN /\ roomCall' = RoomCall("leaveRoom", code, id, FALSE, "absent")
       /\ UNCHANGED <<activeRooms, localStorage>>
       /\ UNCHANGED <<webrtcVars, throttleVars>>
  ELSE /\ activeRooms' = [activeRooms EXCEPT ![code.chars] = RoomAfterLeave(room, id)]
       /\ localStorage' = SavedRooms(activeRooms')
       /\ roomCall' = RoomCall("leaveRoom", code, id, FALSE, "left")
       /\ UNCHANGED <<webrtcVars, throttleVars>>

\* ---- throttle ---------------------------------------------------------------
\* the function returned by throttle(func, limit) is called with arg
ThrottledCall(arg) ==
  /\ throttled' =
       IF ~throttled.inThrottle
       THEN [throttled EXCEPT !.inThrottle = TRUE,
                              !.timer = TRUE,
                              !.due = throttled.now + ThrottleLimit,
                              !.lastRun = throttled.now,
                              !.passed = arg,
                              !.call = [at |-> throttled.now, arg |-> arg, ran |-> TRUE,
                                        prev |-> throttled.lastRun]]
       ELSE [throttled EXCEPT !.call = [at |-> throttled.now, arg |-> arg, ran |-> FALSE,
                                        prev |-> throttled.lastRun]]
  /\ UNCHANGED <<webrtcVars, roomVars>>

\* the callback of setTimeout(() => inThrottle = false, limit); it runs when
\* the event loop gets to it, not before the delay has passed
ThrottleTimeout ==
  /\ throttled.timer
  /\ throttled.now >= throttled.due
  /\ throttled' = [throttled EXCEPT !.inThrottle = FALSE, !.timer = FALSE]
  /\ UNCHANGED <<webrtcVars, roomVars>>

\* a millisecond tick of the clock
ClockTick ==
  /\ throttled.now < MaxTime
  /\ throttled' = [throttled EXCEPT !.now = @ + 1]
  /\ UNCHANGED <<webrtcVars, roomVars>>

\* ---- the clock and the remote peer's answers ---------------------------------
\* a millisecond passes on this machine
TimePasses ==
  /\ clock < Epoch + MaxClock
  /\ clock' = clock + 1
  /\ UNCHANGED <<peer, sessions, peerId, isReady, connectionStatus, connections,
                 reconnectAttempts, reconnectTimers, timers, pendingConnections, ops,
                 chans, qualityIntervals, act>>
  /\ UNCHANGED <<connectionQuality, unanswered, lastData, lastSend, identity, roomVars,
                 throttleVars, pings, displayKeyphrase, dataCallbacks,
                 connectionHandshakes>>

\* how far the remote machine's Date.now() is ahead of this one's
ClockSkews == {-1, 0, 1}

\* handleQualityPing on the remote side: the pongs that can arrive on channel
\* c now, each echoing the pingId of a ping sent on c and carrying the remote
\* Date.now() of the moment t it was answered
Replies(c) ==
  {Pong(g.pingId, t + k) : g \in {x \in pings : x.chan = c},
                           t \in Epoch..clock, k \in ClockSkews}

\* a pong that answers no ping of this side
Unsolicited(c) == {Pong(PingId(chans[c].peer, clock + 1), clock)}

\* ---- the system -------------------------------------------------------------
\* keyphrases of the remote peer the runs below dial
KeysOfA == {k \in Keyphrases : TargetPeerId(k) = <<"a">>}

AddrA == {TargetPeerId(k) : k \in KeysOfA}

\* Spec: a manager instance used as the application uses it
\* (src/unnamed/part_014, initializeWebRTC): constructed, initialized once,
\* closed at the end.
Base == Scope(MaxInits, MaxOps, MaxChannels, MaxTimers)

Next ==
  \/ (sessions = <<>> /\ InitializePeer(Base))
  \/ \E k \in KeysOfA, n \in 1..MaxRetries : ConnectToPeer(k, n, Base)
  \/ \E p \in AddrA : CancelReconnection(p)
  \/ CloseConnection
  \/ \E s \in 1..Len(sessions) : PeerOpen(s)
  \/ \E s \in 1..Len(sessions) : PeerError(s)
  \/ \E s \in 1..Len(sessions) : PeerClose(s)
  \/ \E s \in 1..Len(sessions) : InitTimeout(s)
  \/ \E s \in 1..Len(sessions), p \in AddrA : IncomingConnection(s, p, Base)
  \/ \E c \in 1..Len(chans) : ChannelOpen(c)
  \/ \E c \in 1..Len(chans) : ChannelClose(c, Base)
  \/ \E c \in 1..Len(chans) : ChannelError(c)
  \/ \E c \in 1..Len(chans) : ConnectTimeout(c)
  \/ \E o \in 1..Len(ops) : RetryBackoff(o, Base)
  \/ \E t \in 1..Len(timers) : ReconnectTimer(t, Base)
  \/ \E c \in 1..Len(chans) : QualityTick(c, Base)

Spec == Init /\ [][Next]_vars

\* SpecRestart: the same instance is initialized again after closeConnection.
Restart == Scope(MaxInits, MaxOps + 1, MaxChannels + 1, MaxTimers)

NextRestart ==
  \/ (peer = 0 /\ InitializePeer(Restart))
  \/ \E k \in KeysOfA : ConnectToPeer(k, 1, Restart)
  \/ CloseConnection
  \/ \E s \in 1..Len(sessions) : PeerOpen(s)
  \/ \E c \in 1..Len(chans) : ChannelOpen(c)
  \/ \E c \in 1..Len(chans) : ChannelClose(c, Restart)
  \/ \E c \in 1..Len(chans) : ChannelError(c)
  \/ \E c \in 1..Len(chans) : ConnectTimeout(c)
  \/ \E t \in 1..Len(timers) : ReconnectTimer(t, Restart)

SpecRestart == Init /\ [][NextRestart]_vars

\* SpecReconnect: every channel to the peer fails before it opens, so that
\* reconnection attempts follow one another with nothing resetting the count.
Reconnect == Scope(1, MaxReconnectAttempts + 1, MaxReconnectAttempts + 1,
                   MaxReconnectAttempts + 1)

NextReconnect ==
  \/ (sessions = <<>> /\ InitializePeer(Reconnect))
  \/ \E k \in KeysOfA : ConnectToPeer(k, 1, Reconnect)
  \/ \E s \in 1..Len(sessions) : PeerOpen(s)
  \/ \E c \in 1..Len(chans) : ChannelClose(c, Reconnect)
  \/ \E c \in 1..Len(chans) : ChannelError(c)
  \/ \E c \in 1..Len(chans) : ConnectTimeout(c)
  \/ \E t \in 1..Len(timers) : ReconnectTimer(t, Reconnect)

SpecReconnect == Init /\ [][NextReconnect]_vars

\* SpecRetry: one connect call of up to MaxAttempts attempts whose channels
\* fail or open.
Retry == Scope(1, 1, MaxAttempts, 0)

NextRetry ==
  \/ (sessions = <<>> /\ InitializePeer(Retry))
  \/ \E s \in 1..Len(sessions) : PeerOpen(s)
  \/ \E k \in KeysOfA, n \in 1..MaxAttempts : ConnectToPeer(k, n, Retry)
  \/ \E c \in 1..Len(chans) : ChannelOpen(c)
  \/ \E c \in 1..Len(chans) : ChannelError(c)
  \/ \E c \in 1..Len(chans) : ConnectTimeout(c)
  \/ \E o \in 1..Len(ops) : RetryBackoff(o, Retry)

SpecRetry == Init /\ [][NextRetry]_vars

\* SpecArguments: connect calls with every kind of maxRetries argument, zero
\* and negative ones included.
RetryArguments == -1..MaxRetries

Arguments == Scope(1, MaxOps, MaxChannels, 0)

NextArguments ==
  \/ (sessions = <<>> /\ InitializePeer(Arguments))
  \/ \E s \in 1..Len(sessions) : PeerOpen(s)
  \/ \E k \in KeysOfA, n \in RetryArguments : ConnectToPeer(k, n, Arguments)
  \/ \E c \in 1..Len(chans) : ChannelOpen(c)
  \/ \E c \in 1..Len(chans) : ChannelError(c)
  \/ \E c \in 1..Len(chans) : ConnectTimeout(c)
  \/ \E o \in 1..Len(ops) : RetryBackoff(o, Arguments)

SpecArguments == Init /\ [][NextArguments]_vars

\* SpecExhausted: the peer is unreachable until the reconnection attempts are
\* used up; channels open only after that, and only then does the user connect
\* with retries.
Exhausted == Scope(1, MaxReconnectAttempts + 2, MaxReconnectAttempts + 2,
                   MaxReconnectAttempts + 1)

NextExhausted ==
  \/ (sessions = <<>> /\ InitializePeer(Exhausted))
  \/ \E k \in KeysOfA :
       ConnectToPeer(k, IF reconnectAttempts[TargetPeerId(k)] = MaxReconnectAttempts
                        THEN MaxRetries ELSE 1, Exhausted)
  \/ \E s \in 1..Len(sessions) : PeerOpen(s)
  \/ \E c \in 1..Len(chans) :
       reconnectAttempts[chans[c].peer] = MaxReconnectAttempts /\ ChannelOpen(c)
  \/ \E c \in 1..Len(chans) : ChannelClose(c, Exhausted)
  \/ \E c \in 1..Len(chans) : ChannelError(c)
  \/ \E o \in 1..Len(ops) : RetryBackoff(o, Exhausted)
  \/ \E t \in 1..Len(timers) : ReconnectTimer(t, Exhausted)

SpecExhausted == Init /\ [][NextExhausted]_vars

\* SpecPong: quality pings of one channel answered by the remote peer while
\* time passes.
Pongs == WithPings(Scope(1, 1, MaxChannels, 0), MaxPings)

NextPong ==
  \/ (sessions = <<>> /\ InitializePeer(Pongs))
  \/ \E s \in 1..Len(sessions) : PeerOpen(s)
  \/ \E s \in 1..Len(sessions), p \in AddrA : IncomingConnection(s, p, Pongs)
  \/ \E k \in KeysOfA : ConnectToPeer(k, 1, Pongs)
  \/ \E c \in 1..Len(chans) : ChannelOpen(c)
  \/ \E c \in 1..Len(chans) : QualityTick(c, Pongs)
  \/ TimePasses
  \/ \E c \in 1..Len(chans) :
       \E m \in Replies(c) \cup Unsolicited(c) : HandleDataReceived(c, m)

SpecPong == Init /\ [][NextPong]_vars

\* SpecCallbacks: messages received on a channel the remote peer opened, with
\* the application's data subscribers.
Callbacks == Scope(1, 0, 1, 0)

NextCallbacks ==
  \/ (sessions = <<>> /\ InitializePeer(Callbacks))
  \/ \E s \in 1..Len(sessions) : PeerOpen(s)
  \/ \E s \in 1..Len(sessions), p \in AddrA : IncomingConnection(s, p, Callbacks)
  \/ \E c \in 1..Len(chans) : ChannelOpen(c)
  \/ \E throws \in BOOLEAN : OnDataReceived(throws)
  \/ \E c \in 1..Len(chans), m \in Messages : HandleDataReceived(c, m)

SpecCallbacks == Init /\ [][NextCallbacks]_vars

\* SpecInit: initializePeer calls, each after the previous session was closed,
\* with the events of the signaling client in any order; an armed
\* initialization timeout eventually fires.
Inits == WithPromises(Scope(MaxInits, 0, 1, 0))

NextInit ==
  \/ (peer = 0 /\ InitializePeer(Inits))
  \/ CloseConnection
  \/ \E s \in 1..Len(sessions) : PeerOpen(s)
  \/ \E s \in 1..Len(sessions) : PeerError(s)
  \/ \E s \in 1..Len(sessions) : PeerClose(s)
  \/ \E s \in 1..Len(sessions) : InitTimeout(s)
  \/ \E s \in 1..Len(sessions), p \in AddrA : IncomingConnection(s, p, Inits)

\* the 15 s initialization timeouts
InitTimers == \E s \in 1..Len(sessions) : InitTimeout(s)

SpecInit == Init /\ [][NextInit]_vars /\ WF_vars(InitTimers)

\* SpecQuality: quality monitoring of channels the remote peer opened.
Quality == WithPings(Base, MaxPings)

NextQuality ==
  \/ (sessions = <<>> /\ InitializePeer(Quality))
  \/ \E s \in 1..Len(sessions) : PeerOpen(s)
  \/ \E s \in 1..Len(sessions), p \in AddrA : IncomingConnection(s, p, Quality)
  \/ \E c \in 1..Len(chans) : ChannelOpen(c)
  \/ \E c \in 1..Len(chans) : ChannelClose(c, Quality)
  \/ \E c \in 1..Len(chans) : QualityTick(c, Quality)
  \/ \E c \in 1..Len(chans), m \in PingMessages \cup PongMessages : HandleDataReceived(c, m)

SpecQuality == Init /\ [][NextQuality]_vars

\* SpecData: messages received and payloads sent on channels that the remote
\* peers a and b opened.
NextData ==
  \/ (sessions = <<>> /\ InitializePeer(Base))
  \/ \E s \in 1..Len(sessions) : PeerOpen(s)
  \/ \E s \in 1..Len(sessions), p \in Addr : IncomingConnection(s, p, Base)
  \/ \E c \in 1..Len(chans) : ChannelOpen(c)
  \/ \E c \in 1..Len(chans) : ChannelClose(c, Base)
  \/ \E c \in 1..Len(chans) : ChannelError(c)
  \/ \E c \in 1..Len(chans), m \in Messages : HandleDataReceived(c, m)
  \/ \E accepts \in SUBSET (1..Len(chans)) : SendData(accepts)

SpecData == Init /\ [][NextData]_vars

\* SpecIdentity: the peer ids derived from every pair of human identifiers.
NextIdentity ==
  \/ InitializePeerId
  \/ ConnectTargetPeerId

SpecIdentity == InitIdentity /\ [][NextIdentity]_vars

\* SpecSessions: any sequence of initializePeer and closeConnection calls with
\* the events of the signaling clients they create.
NextSessions ==
  \/ InitializePeer(Base)
  \/ CloseConnection
  \/ \E s \in 1..Len(sessions) : PeerOpen(s)
  \/ \E s \in 1..Len(sessions) : PeerError(s)
  \/ \E s \in 1..Len(sessions) : PeerClose(s)
  \/ \E s \in 1..Len(sessions) : InitTimeout(s)
  \/ \E s \in 1..Len(sessions), p \in AddrA : IncomingConnection(s, p, Base)
  \/ \E c \in 1..Len(chans) : ChannelOpen(c)

SpecSessions == Init /\ [][NextSessions]_vars

\* SpecRooms: any sequence of joinRoom and leaveRoom calls on a RoomManager constructed over an empty localStorage.
NextRooms ==
  \/ \E code \in JoinCodes, info \in DeviceInfos, gen \in GeneratedIds : JoinRoom(code, info, gen)
  \/ \E code \in JoinCodes, id \in DeviceIds \cup GeneratedIds : LeaveRoom(code, id)

SpecRooms == Init /\ [][NextRooms]_vars

\* SpecRoomCodes: validateRoomCode and canJoinRoom applied to every code input
\* while no room exists.
NextRoomCodes ==
  \/ \E code \in CodeInputs : ValidateRoomCode(code)
  \/ \E code \in CodeInputs, info \in {i \in DeviceInfos : i.id = ""} : CanJoinRoom(code, info)

SpecRoomCodes == Init /\ [][NextRoomCodes]_vars

\* SpecThrottle: calls of a throttled function at any times.
NextThrottle ==
  \/ \E arg \in ThrottleArgs : ThrottledCall(arg)
  \/ ThrottleTimeout
  \/ ClockTick

SpecThrottle == Init /\ [][NextThrottle]_vars

\* ---- properties ----------------------------------------------------------------
ArmedFor(p) == {t \in 1..Len(timers) : timers[t].peer = p /\ timers[t].armed}

OpenTo(p) == {c \in 1..Len(chans) : chans[c].peer = p /\ chans[c].tst = "open"}

\* connect operations to p that wait for a channel made on the current Peer
AwaitingOnSession(p) ==
  {o \in 1..Len(ops) : /\ ops[o].target = p
                       /\ ops[o].st = "await"
                       /\ chans[ops[o].chan].sess = peer}

\* C1: concurrent connect calls to one address share one attempt sequence: at
\* no time do two connect operations to the same address each wait for a
\* channel of their own on the current session.
C1_OneAttemptSequence == \A p \in Addr : Cardinality(AwaitingOnSession(p)) <= 1

\* C2: at most one open channel exists per remote address, whether it was
\* opened by connect, by a reconnection or by the remote side.
C2_OneOpenChannelPerAddress == \A p \in Addr : Cardinality(OpenTo(p)) <= 1

\* C3: at most one reconnection timer is armed per address at any time; a
\* closure that arrives while one is armed arms no second one.
C3_OneReconnectTimerPerAddress == \A p \in Addr : Cardinality(ArmedFor(p)) <= 1

\* C4: every connect operation settles once the timers have run, whatever the
\* transport reports: an operation that waits for its channel always has that
\* channel's connect timeout armed to settle it.
C4_AwaitingHasTimeout ==
  \A o \in 1..Len(ops) : ops[o].st = "await" => chans[ops[o].chan].timeout

\* C5: with maxAttempts = N and every attempt failing, connect makes exactly N
\* attempts and then rejects with the count N and the last failure's reason;
\* it never makes more than N attempts and never rejects before the N-th
\* attempt has failed.
C5_RejectsAfterExactlyN ==
  \A o \in 1..Len(ops) :
    LET op == ops[o]
        transport == \A i \in 1..Len(op.fails) : op.fails[i] \in {"error", "timeout"}
    IN
    /\ op.attempt <= op.max
    /\ op.dials <= op.attempt
    /\ Len(op.fails) <= op.attempt
    /\ op.st = "rejected" <=> Len(op.fails) = op.max
    /\ op.st = "rejected" =>
         /\ op.attempt = op.max
         /\ op.err = [count |-> op.attempt, reason |-> op.fails[op.max]]
         /\ transport => op.dials = op.max
    /\ op.st # "rejected" => op.err.count = 0

C5_RejectedAfterTwo ==
  \E o \in 1..Len(ops) :
    /\ ops[o].st = "rejected"
    /\ ops[o].max = 2
    /\ ops[o].dials = 2
    /\ ops[o].fails \in {<<"error", "timeout">>, <<"timeout", "error">>}

\* C6: connect called while the session is not ready fails at once: it makes
\* no channel-open attempt, creates no pending record and leaves the
\* connection and reconnection maps as they were.
C6_NotReadyFailsFast ==
  [][((peer = 0 \/ ~isReady) /\ act'.name \in {"connectToPeer", "reconnectTimer"})
       => /\ act'.call = "NotReady"
          /\ UNCHANGED <<ops, chans, pendingConnections, connections,
                         reconnectAttempts, reconnectTimers>>]_vars

C6_RefusedBeforeOpen ==
  /\ act.name = "connectToPeer"
  /\ act.call = "NotReady"
  /\ peer # 0
  /\ sessions[peer].st = "new"
  /\ ops = <<>>
  /\ chans = <<>>

\* C7: when an established connection is closed by the transport (not by a
\* local close), a reconnection to its address is scheduled.
C7_ClosureSchedulesReconnect ==
  [][\A c \in 1..Len(chans) :
       (chans[c].tst = "open" /\ connections[chans[c].peer] = c
          /\ chans'[c].tst = "closed")
       => \E t \in 1..Len(timers') : timers'[t].armed /\ timers'[t].peer = chans[c].peer]_vars

\* C8: consecutive failed reconnections to an address are scheduled after
\* 1000, 2000, 4000, 8000 and 16000 ms, and no sixth one is scheduled.
C8_ReconnectBackoff ==
  /\ \A t \in 1..Len(timers) :
       /\ timers[t].n = Cardinality({u \in 1..t : timers[u].peer = timers[t].peer})
       /\ timers[t].n \in 1..5
       /\ timers[t].delay = <<1000, 2000, 4000, 8000, 16000>>[timers[t].n]
  /\ \A p \in Addr : reconnectAttempts[p] <= 5

C8_SixthFailureNotScheduled ==
  /\ Len(timers) = 5
  /\ timers[5].delay = 16000
  /\ \A t \in 1..5 : ~timers[t].armed
  /\ Cardinality({c \in 1..Len(chans) : chans[c].tst = "closed"}) = 6

\* C9: cancelReconnection(A) leaves no reconnection timer armed for A.
C9_CancelLeavesNoTimer ==
  [][act'.name = "cancelReconnection" =>
       \A t \in 1..Len(timers') : timers'[t].peer = act'.peer => ~timers'[t].armed]_vars

NoTimerArmed ==
  /\ \A t \in 1..Len(timers) : ~timers[t].armed
  /\ \A c \in 1..Len(chans) : ~chans[c].timeout /\ ~chans[c].interval
  /\ \A o \in 1..Len(ops) : ops[o].st # "backoff"
  /\ \A s \in 1..Len(sessions) : ~sessions[s].timer

\* C10: after closeConnection no channel is open and no timer of the manager
\* remains armed: reconnection timer, quality interval, connect timeout,
\* retry backoff, initialization timeout.
C10_CloseLeavesNothingArmed ==
  [][act'.name = "closeConnection" =>
       /\ NoTimerArmed'
       /\ \A c \in 1..Len(chans') : chans'[c].tst # "open"]_vars

\* C11: once a channel has reported closure, no quality timer that references
\* it is left armed.
C11_ClosedChannelHasNoQualityTimer ==
  \A c \in 1..Len(chans) : chans[c].tst = "closed" => ~chans[c].interval

\* C12: a round-trip time of r ms is classified excellent for r < 50, good for
\* 50 <= r < 100, fair for 100 <= r < 200 and poor from 200 on.
C12_TierOfRtt ==
  \A p \in Addr :
    LET q == connectionQuality[p] IN
    q # NoQuality =>
      /\ q.rtt \in 0..49 => q.level = "excellent"
      /\ q.rtt \in 50..99 => q.level = "good"
      /\ q.rtt \in 100..199 => q.level = "fair"
      /\ q.rtt >= 200 => q.level = "poor"
      /\ q.level \in {"excellent", "good", "fair", "poor"}

C12_FiftyIsGood ==
  /\ connectionQuality[<<"a">>] = [rtt |-> 50, level |-> "good"]
  /\ lastData.msg.type = "quality_pong"

\* C13: when a ping has gone unanswered for more than a second (a second ping
\* has been sent since and still no pong has arrived), the sample recorded
\* for the address is poor.
C13_UnansweredPingIsPoor ==
  \A p \in Addr : unanswered[p] >= 2 => connectionQuality[p].level = "poor"

ProtocolTypes ==
  {"handshake", "quality_ping", "quality_pong", "discovery_ping", "discovery_pong"}

\* C14: a received message of a protocol type is never passed to the
\* application's data callbacks.
C14_ProtocolMessagesConsumed ==
  lastData.msg.type \in ProtocolTypes => ~lastData.forwarded

\* C15: a send attempts delivery on every open channel and returns true
\* exactly when at least one of them accepted the payload.
C15_SendReachesEveryOpenChannel ==
  [][act'.name = "sendData" /\ lastSend' # lastSend =>
       /\ lastSend'.attempted = {c \in 1..Len(chans) : chans[c].tst = "open"}
       /\ lastSend'.ret = "true" <=> lastSend'.accepted # {}]_vars

\* C16: a discovery announcement of another scope starts no connect; one of
\* the local scope that names an address without a connection starts exactly
\* one.
C16_DiscoveryStartsOneConnect ==
  [][act'.name = "handleDataReceived" /\ lastData' # lastData
       /\ lastData'.msg.type \in {"discovery_ping", "discovery_pong"} =>
       IF /\ lastData'.msg.scope = "same"
          /\ connections[lastData'.msg.address] = 0
          /\ pendingConnections[lastData'.msg.address] = 0
       THEN Len(ops') = Len(ops) + 1
       ELSE Len(ops') = Len(ops)]_vars

\* C17: the address connect(K) dials is the address initialize(K) registers.
C17_DialsRegisteredAddress ==
  identity.derived /\ identity.dialled /\ Trim(identity.h1) # <<>> =>
    identity.target = identity.id1

\* two identifiers that differ at most in case and surrounding whitespace
EqualAfterNormalization(x, y) == ToLowerCase(Trim(x)) = ToLowerCase(Trim(y))

\* C18: identifiers that are equal after normalization derive the same
\* address.
C18_EqualIdentifiersSameAddress ==
  identity.derived /\ EqualAfterNormalization(identity.h1, identity.h2) =>
    identity.id1 = identity.id2

C18_DistinctSpellingsSameAddress ==
  /\ identity.derived
  /\ identity.h1 # identity.h2
  /\ Trim(identity.h1) # <<>>
  /\ EqualAfterNormalization(identity.h1, identity.h2)
  /\ identity.id1 = identity.id2

\* C19: when the remote side closes a channel this side accepted, this side
\* becomes disconnected and schedules its own reconnection to the remote
\* address.
C19_AcceptingSideReconnects ==
  [][\A c \in 1..Len(chans) :
       (chans[c].dir = "in" /\ chans[c].tst = "open" /\ connections[chans[c].peer] = c
          /\ chans'[c].tst = "closed")
       => /\ connectionStatus' = "disconnected"
          /\ \E t \in 1..Len(timers') :
               /\ timers'[t].armed
               /\ timers'[t].peer = chans[c].peer
               /\ reconnectTimers'[chans[c].peer] = t]_vars

\* C20: the reported connection status is connected whenever a channel is
\* open; it is disconnected or error only when none is.
C20_StatusMatchesChannels ==
  (\E c \in 1..Len(chans) : chans[c].tst = "open") => connectionStatus = "connected"

\* the signaling clients that are neither closed nor destroyed
LiveSessions == {s \in 1..Len(sessions) : sessions[s].st \in {"new", "open"}}

\* C21: whatever initialize and close calls were made, at most one signaling
\* session is live.
C21_AtMostOneLiveSession == Cardinality(LiveSessions) <= 1

MobileCount(devices) == Cardinality({i \in 1..Len(devices) : devices[i].isMobile})

\* C22: every room holds at most 3 devices and at most 1 mobile device; a
\* joinRoom that would exceed either limit throws and leaves the device list
\* unchanged; a desktop device joins a room that has a mobile device and fewer
\* than 3 devices.
C22_RoomLimits ==
  [][/\ \A k \in RoomKeys :
          /\ Len(activeRooms'[k].devices) <= 3
          /\ MobileCount(activeRooms'[k].devices) <= 1
     /\ roomCall'.op = "joinRoom" =>
          LET before == RoomOf(activeRooms, roomCall'.code).devices
              after == RoomOf(activeRooms', roomCall'.code).devices
              mobile == roomCall'.isMobile
          IN
          /\ (Len(before) + 1 > 3 \/ (mobile /\ MobileCount(before) + 1 > 1)) =>
               /\ roomCall'.result \in {"full", "mobile"}
               /\ activeRooms' = activeRooms
          /\ (~mobile /\ MobileCount(before) = 1 /\ Len(before) < 3) =>
               /\ roomCall'.result = "joined"
               /\ Len(after) = Len(before) + 1
               /\ SubSeq(after, 1, Len(before)) = before
               /\ ~after[Len(after)].isMobile]_vars

C22_FullRoomRefuses ==
  /\ roomCall.op = "joinRoom"
  /\ roomCall.result = "full"
  /\ Len(activeRooms[RoomA].devices) = 3
  /\ MobileCount(activeRooms[RoomA].devices) = 1

\* the codes the claim accepts: 8 to 24 characters, letters and digits only
IsAlphanumericCode(code) ==
  /\ code.kind = "string"
  /\ Len(code.chars) \in 8..24
  /\ \A i \in 1..Len(code.chars) : code.chars[i] \in {"a", "b", "A", "B", "0", "1"}

\* C23: validateRoomCode accepts exactly the strings of 8 to 24 alphanumeric
\* characters, and canJoinRoom allows every accepted code on an empty room.
C23_AcceptsAlphanumericCodes ==
  /\ roomCall.op = "validateRoomCode" =>
       (roomCall.result = "true" <=> IsAlphanumericCode(roomCall.code))
  /\ (roomCall.op = "canJoinRoom" /\ IsAlphanumericCode(roomCall.code)) =>
       roomCall.result = "allowed"

\* C24: leaveRoom removes the device of that id and keeps the other devices
\* in their order; a room whose last device left is deleted, so no room
\* without devices remains; leaveRoom on a room that does not exist changes
\* nothing.
C24_LeaveRemovesDevice ==
  [][/\ \A k \in RoomKeys : activeRooms'[k].exists => activeRooms'[k].devices # <<>>
     /\ roomCall'.op = "leaveRoom" =>
          LET before == RoomOf(activeRooms, roomCall'.code)
              after == RoomOf(activeRooms', roomCall'.code)
              others == {i \in 1..Len(before.devices) : before.devices[i].id # roomCall'.id}
          IN
          /\ ~before.exists => activeRooms' = activeRooms /\ roomCall'.result = "absent"
          /\ before.exists =>
               /\ \A i \in 1..Len(after.devices) : after.devices[i].id # roomCall'.id
               /\ Len(after.devices) = Cardinality(others)
               /\ \A i \in others :
                    after.devices[Cardinality({j \in others : j <= i})] = before.devices[i]
               /\ after.exists <=> others # {}
               /\ \A k \in RoomKeys : k # roomCall'.code.chars =>
                    activeRooms'[k] = activeRooms[k]]_vars

C24_LastDeviceLeft ==
  /\ roomCall.op = "leaveRoom"
  /\ roomCall.result = "left"
  /\ roomCall.code = Str(RoomA)
  /\ ~activeRooms[RoomA].exists
  /\ localStorage = [saved |-> TRUE, rooms |-> {}]

\* C25: the first call of a throttled function invokes func with its
\* arguments; a call less than limit after the last invocation does not
\* invoke it; a call made once limit has elapsed invokes it again.
C25_ThrottleWindow ==
  LET c == throttled.call IN
  c.at >= 0 =>
    /\ c.prev = -1 => c.ran /\ throttled.passed = c.arg
    /\ (c.prev >= 0 /\ c.at - c.prev < ThrottleLimit) => ~c.ran
    /\ (c.prev >= 0 /\ c.at - c.prev >= ThrottleLimit) => c.ran /\ throttled.passed = c.arg

\* the failures a connect operation has had, none before it exists
FailuresOf(os, o) == IF o <= Len(os) THEN Len(os[o].fails) ELSE 0

\* C26: after the k-th failed attempt of a connect call the wait before the
\* next attempt is min(1000 * 2^(k-1), 4000) ms: 1000, 2000, 4000, 4000, ...;
\* after the last attempt the call is rejected without a wait.
C26_RetryWaits ==
  [][\A o \in 1..Len(ops') :
       FailuresOf(ops', o) = FailuresOf(ops, o) + 1 =>
         LET k == ops'[o].attempt IN
         IF k >= ops'[o].max
         THEN ops'[o].st = "rejected"
         ELSE /\ ops'[o].st = "backoff"
              /\ ops'[o].wait = (IF k = 1 THEN 1000 ELSE IF k = 2 THEN 2000 ELSE 4000)]_vars

C26_SecondCappedWait ==
  \E o \in 1..Len(ops) :
    /\ ops[o].st = "backoff"
    /\ ops[o].attempt = 4
    /\ ops[o].wait = 4000
    /\ ops[o].fails \in Seq({"error", "timeout"})

\* C27: when a channel to an address opens and is registered as its
\* connection, the reconnection state of the address is reset: the attempt
\* counter is zero and no reconnection timer of the address is armed or
\* recorded.
C27_OpenResetsReconnectState ==
  [][\A c \in 1..Len(chans) :
       (chans[c].tst = "connecting" /\ chans'[c].tst = "open" /\ connections'[chans[c].peer] = c)
       => /\ reconnectAttempts'[chans[c].peer] = 0
          /\ reconnectTimers'[chans[c].peer] = 0
          /\ \A t \in 1..Len(timers') : timers'[t].peer = chans[c].peer => ~timers'[t].armed]_vars

\* connect operations to p that have not settled
InFlight(p) == {o \in 1..Len(ops) : ops[o].target = p /\ ops[o].st \in {"await", "backoff"}}

\* C28: after a failed reconnection attempt with fewer than 5 attempts made,
\* the next attempt is scheduled: the reconnection of an address never rests
\* between its first and its fifth attempt with no timer armed, no attempt
\* running and no channel open.
C28_FailedReconnectReschedules ==
  \A p \in Addr :
    reconnectAttempts[p] \in 1..4 =>
      \/ ArmedFor(p) # {}
      \/ InFlight(p) # {}
      \/ OpenTo(p) # {}

C30_PendingWhileInFlight ==
  \A p \in Addr :
    /\ pendingConnections[p] # 0 <=> InFlight(p) # {}
    /\ pendingConnections[p] # 0 => InFlight(p) = {pendingConnections[p]}

\* C31: the quality sample of a connection is cleared when the connection
\* closes: an address with no registered connection has no stored sample.
C31_NoConnectionNoSample ==
  \A p \in Addr : connections[p] = 0 => connectionQuality[p] = NoQuality

\* C32: a sample is recorded only when a pong arrives that echoes a ping this
\* side sent on the connection of that address, and its round-trip time is
\* the time of receipt minus the time that ping was sent.
C32_SampleIsRoundTripOfOwnPing ==
  [][\A p \in Addr :
       (connectionQuality'[p] # connectionQuality[p] /\ connectionQuality'[p] # NoQuality) =>
         /\ act'.name = "handleDataReceived"
         /\ lastData'.msg.type = "quality_pong"
         /\ \E g \in pings :
              /\ g.chan = connections[p]
              /\ g.pingId = lastData'.msg.pingId
              /\ connectionQuality'[p].rtt = clock - g.timestamp]_vars

C34_HandshakeConfirms ==
  [][(act'.name = "handleDataReceived" /\ lastData' # lastData
        /\ lastData'.msg.type = "handshake") =>
       /\ connectionHandshakes'[lastData'.from]
       /\ lastData'.notified = lastData'.msg.label
       /\ connections' = connections]_vars

\* C35: a received message whose type is not a protocol type is passed
\* unchanged to every data subscriber, once each and in registration order,
\* also when an earlier subscriber throws.
C35_DeliveredToEverySubscriber ==
  [][(act'.name = "handleDataReceived" /\ lastData' # lastData
        /\ lastData'.msg.type \notin ProtocolTypes \cup {"invalid"}) =>
       /\ Len(lastData'.delivered) = Len(dataCallbacks)
       /\ \A i \in 1..Len(dataCallbacks) :
            /\ lastData'.delivered[i].sub = i
            /\ lastData'.delivered[i].msg = lastData'.msg]_vars

C35_DeliveredAfterThrow ==
  /\ Len(lastData.delivered) = 2
  /\ lastData.delivered[1].threw
  /\ lastData.delivered[2].sub = 2
  /\ lastData.msg.type = "data"

C37_StaleEventsKeepConnection ==
  [][\A p \in Addr :
       LET r == connections[p] IN
       (/\ r # 0
        /\ act'.peer = p
        /\ \/ act'.name = "channelClose" /\ chans'[r].tst = chans[r].tst
           \/ act'.name = "channelError" /\ chans[r].dir = "out") =>
         /\ connections'[p] = r
         /\ qualityIntervals'[p] = qualityIntervals[p]
         /\ chans'[r].interval = chans[r].interval]_vars

\* the channels to p whose quality interval is armed
ArmedIntervals(p) == {c \in 1..Len(chans) : chans[c].peer = p /\ chans[c].interval}

\* C38: at most one quality interval is armed per address, and an armed
\* interval is the one recorded in qualityIntervals for its address.
C38_OneRecordedIntervalPerAddress ==
  \A p \in Addr :
    /\ Cardinality(ArmedIntervals(p)) <= 1
    /\ \A c \in ArmedIntervals(p) : qualityIntervals[p] = c

\* the promise of the s-th initializePeer call has been resolved or rejected
InitSettled(s) == s <= Len(sessions) /\ sessions[s].init \in {"resolved", "rejected"}

\* C39: every initializePeer call eventually settles when the timers run,
\* whatever order the signaling client reports open, error and close in.
C39_InitializeSettles ==
  \A s \in 1..MaxInits : (s <= Len(sessions)) ~> InitSettled(s)

\* the o-th connect call settles as resolved in this step
ResolvesNow(o) ==
  /\ o <= Len(ops')
  /\ ops'[o].st = "resolved"
  /\ (o > Len(ops) \/ ops[o].st # "resolved")

\* C40: a connect call resolves only with a channel that is open and
\* registered in connections under the target address, whatever maxRetries
\* it was given, zero and negative values included.
C40_ResolvesWithOpenConnection ==
  [][\A o \in 1..(Len(ops) + 1) :
       ResolvesNow(o) =>
         /\ ops'[o].chan # 0
         /\ connections'[ops'[o].target] = ops'[o].chan
         /\ chans'[ops'[o].chan].tst = "open"]_vars

====
